---- MODULE Spec2Model ----
(***************************************************************************)
(* List based symbol table (src/src/symtablelist.c) driven by a caller     *)
(* like src/testsymtab.c.  The heap holds the caller's key buffers and     *)
(* value objects, the SymTable struct, the abind structs and the key       *)
(* copies; pointers are heap addresses, NULL is 0.                         *)
(***************************************************************************)
EXTENDS Integers, Sequences, FiniteSets, TLC

\* Number of heap cells malloc can hand out.
HeapSize == 12

\* Number of value objects the caller owns.
NumValues == 1

\* Number of key buffers the caller rewrites or frees while a table is live.
NumRewritten == 1

NULL == 0

\* unsigned int arithmetic wraps around; the width is the 16 bits the C
\* standard guarantees (the model checker's integers stop short of 2^32)
UIntMod == 65536

Addr == 1..HeapSize

\* The caller's key buffers (char **keys of the driver) as first filled:
\* "a", "b", "ab" and a second buffer that also holds "a".  A pcKey
\* argument is NULL or the address of one of these buffers.
keys == << <<97>>, <<98>>, <<97, 98>>, <<97>> >>

KeyPtr == DOMAIN keys

\* The caller's value objects (int *values of the driver); a pvValue
\* argument is NULL or the address of one of them.
ValPtr == {Len(keys) + i : i \in 1..NumValues}

VARIABLES
    heap,       \* Addr -> cell: free, SymTable struct, abind struct, char array, int
    oSymTable,  \* the caller's table handle
    status,     \* "live", "freed" (after SymTable_free) or "abort" (failed assert)
    last,       \* the last call: operation, arguments and returned value
    applied,    \* the pfApply calls made by the last SymTable_map, in order
    trace,      \* what the last call did inside: loop iterations, free() calls
    absMap,     \* abstract finite map run side by side: set of <<key string, value>>
    absRet,     \* what the abstract map returns for the last call
    insOrder    \* key strings of the present bindings, oldest successful put first

vars == <<heap, oSymTable, status, last, applied, trace, absMap, absRet, insOrder>>

FreeCell == [kind |-> "free"]

\* struct SymTable
TableCell(size, first) == [kind |-> "table", uiSize |-> size, first |-> first]

\* struct abind
BindCell(key, value, next) == [kind |-> "bind", key |-> key, value |-> value, next |-> next]

\* a char array the table malloc'ed, holding a null terminated string
StrCell(chars) == [kind |-> "str", chars |-> chars]

\* a char array the caller malloc'ed (keys[i] of the driver)
BufCell(chars) == [kind |-> "buf", chars |-> chars]

\* an int of the caller (values[j] of the driver)
IntCell(n) == [kind |-> "int", val |-> n]

\* the heap as the driver leaves it before it makes a table
DriverHeap ==
    [a \in Addr |-> IF a \in KeyPtr THEN BufCell(keys[a])
                    ELSE IF a \in ValPtr THEN IntCell(1)
                    ELSE FreeCell]

\* the addresses malloc may return
FreeAddrs(h) == {a \in Addr : h[a].kind = "free"}

\* free(p)
Release(h, p) == [h EXCEPT ![p] = FreeCell]

\* strcmp gone wrong: only the first bytes are compared
strcmp_FirstByteOnly(s1, s2) ==
    (IF s1 = <<>> THEN 0 ELSE Head(s1)) - (IF s2 = <<>> THEN 0 ELSE Head(s2))

\* strcmp: 0 when equal, else the sign of the first differing byte (the
\* terminating 0 byte of the shorter string included)
RECURSIVE strcmp(_, _)
strcmp(s1, s2) ==
    IF s1 = <<>> /\ s2 = <<>> THEN 0
    ELSE IF s1 = <<>> THEN 0 - Head(s2)
    ELSE IF s2 = <<>> THEN Head(s1)
    ELSE IF Head(s1) # Head(s2) THEN Head(s1) - Head(s2)
    ELSE strcmp(Tail(s1), Tail(s2))

\* strcpy into a fresh buffer: byte by byte up to the terminator
RECURSIVE strcpy(_)
strcpy(s) == IF s = <<>> THEN <<>> ELSE <<Head(s)>> \o strcpy(Tail(s))

\* the string a char pointer points to
Str(h, p) == h[p].chars

\* the string a binding's key pointer points to
KeyOf(h, ptr) == Str(h, h[ptr].key)

\* one more iteration of a scan loop
Counted(res) == [res EXCEPT !.iters = @ + 1]

\* the scan loop of SymTable_contains gone wrong: it gives up after the
\* first binding
ContainsLoop_FirstOnly(h, ptr, pcKey) ==
    IF ptr = NULL THEN [heap |-> h, ret |-> 0, iters |-> 0]
    ELSE IF strcmp(KeyOf(h, ptr), Str(h, pcKey)) = 0
         THEN [heap |-> h, ret |-> 1, iters |-> 1]
         ELSE [heap |-> h, ret |-> 0, iters |-> 1]

\* the scan loop of SymTable_contains, from ptr on: the heap it leaves
\* (it stores nothing), the value it returns and the iterations it made
RECURSIVE ContainsLoop(_, _, _)
ContainsLoop(h, ptr, pcKey) ==
    IF ptr = NULL THEN [heap |-> h, ret |-> 0, iters |-> 0]
    ELSE IF strcmp(KeyOf(h, ptr), Str(h, pcKey)) = 0
         THEN [heap |-> h, ret |-> 1, iters |-> 1]
         ELSE Counted(ContainsLoop(h, h[ptr].next, pcKey))

\* SymTable_contains gone wrong: the scan starts behind the head
SymTable_contains_SkipsHead(h, symtable, pcKey) ==
    IF h[symtable].first = NULL THEN [heap |-> h, ret |-> 0, iters |-> 0]
    ELSE ContainsLoop(h, h[h[symtable].first].next, pcKey)

\* SymTable_contains gone wrong: the scan moves symtable->first along
\* instead of a local pointer
RECURSIVE SymTable_contains_AdvancesFirst(_, _, _)
SymTable_contains_AdvancesFirst(h, symtable, pcKey) ==
    IF h[symtable].first = NULL THEN [heap |-> h, ret |-> 0, iters |-> 0]
    ELSE IF strcmp(KeyOf(h, h[symtable].first), Str(h, pcKey)) = 0
         THEN [heap |-> h, ret |-> 1, iters |-> 1]
         ELSE Counted(SymTable_contains_AdvancesFirst(
                  [h EXCEPT ![symtable].first = h[h[symtable].first].next],
                  symtable, pcKey))

SymTable_contains(h, symtable, pcKey) == ContainsLoop(h, h[symtable].first, pcKey)

\* the scan loop of SymTable_get gone wrong: the test of strcmp lost its !
RECURSIVE GetLoop_Inverted(_, _, _)
GetLoop_Inverted(h, ptr, pcKey) ==
    IF ptr = NULL THEN [heap |-> h, ret |-> NULL, iters |-> 0]
    ELSE IF strcmp(KeyOf(h, ptr), Str(h, pcKey)) # 0
         THEN [heap |-> h, ret |-> h[ptr].value, iters |-> 1]
         ELSE Counted(GetLoop_Inverted(h, h[ptr].next, pcKey))

\* the scan loop of SymTable_get, from ptr on: the heap it leaves (it
\* stores nothing), the value it returns and the iterations it made
RECURSIVE GetLoop(_, _, _)
GetLoop(h, ptr, pcKey) ==
    IF ptr = NULL THEN [heap |-> h, ret |-> NULL, iters |-> 0]
    ELSE IF strcmp(KeyOf(h, ptr), Str(h, pcKey)) = 0
         THEN [heap |-> h, ret |-> h[ptr].value, iters |-> 1]
         ELSE Counted(GetLoop(h, h[ptr].next, pcKey))

\* SymTable_get gone wrong: it returns the value of the head binding
\* whatever its key
SymTable_get_HeadValue(h, symtable, pcKey) ==
    IF h[symtable].first = NULL THEN [heap |-> h, ret |-> NULL, iters |-> 0]
    ELSE [heap |-> h, ret |-> h[h[symtable].first].value, iters |-> 1]

SymTable_get(h, symtable, pcKey) == GetLoop(h, h[symtable].first, pcKey)

SymTable_getLength(h, symtable) ==
    [heap |-> h, ret |-> h[symtable].uiSize, iters |-> 0]

\* malloc: a first-fit allocator hands out the lowest free cell; the
\* allocation may also fail and give NULL
malloc(h) ==
    {a \in FreeAddrs(h) : \A b \in FreeAddrs(h) : a <= b} \cup {NULL}

\* SymTable_new gone wrong: the count starts at 1
NewTable_CountsFromOne(h, symtable) == [h EXCEPT ![symtable] = TableCell(1, NULL)]

\* SymTable_new past its assert: the fresh struct is empty
NewTable(h, symtable) == [h EXCEPT ![symtable] = TableCell(0, NULL)]

\* SymTable_put gone wrong: the binding is counted as soon as it is
\* allocated
AllocBinding_CountsEarly(h, symtable, new_bind) ==
    [h EXCEPT ![new_bind] = BindCell(NULL, NULL, NULL),
              ![symtable].uiSize = (h[symtable].uiSize + 1) % UIntMod]

\* SymTable_put once new_bind is allocated: the struct is there, its fields
\* are not set yet
AllocBinding(h, symtable, new_bind) ==
    [h EXCEPT ![new_bind] = BindCell(NULL, NULL, NULL)]

\* SymTable_put gone wrong: the count is not incremented
PutBinding_NoCount(h, symtable, new_bind, new_key, pcKey, pvValue) ==
    LET h1 == [h EXCEPT ![new_key] = StrCell(strcpy(Str(h, pcKey)))]
        h2 == [h1 EXCEPT ![new_bind] = BindCell(new_key, pvValue, h1[symtable].first)]
    IN  [h2 EXCEPT ![symtable].first = new_bind]

\* SymTable_put gone wrong: the new binding's next is NULL, not the old head
PutBinding_DropsChain(h, symtable, new_bind, new_key, pcKey, pvValue) ==
    LET h1 == [h EXCEPT ![new_key] = StrCell(strcpy(Str(h, pcKey)))]
        h2 == [h1 EXCEPT ![new_bind] = BindCell(new_key, pvValue, NULL)]
    IN  [h2 EXCEPT ![symtable] =
            TableCell((h2[symtable].uiSize + 1) % UIntMod, new_bind)]

\* SymTable_put gone wrong: the new binding's next is the new binding
PutBinding_SelfLinked(h, symtable, new_bind, new_key, pcKey, pvValue) ==
    LET h1 == [h EXCEPT ![new_key] = StrCell(strcpy(Str(h, pcKey)))]
        h2 == [h1 EXCEPT ![new_bind] = BindCell(new_key, pvValue, new_bind)]
    IN  [h2 EXCEPT ![symtable] =
            TableCell((h2[symtable].uiSize + 1) % UIntMod, new_bind)]

\* SymTable_put gone wrong: the binding keeps the caller's pointer, the
\* key is not copied
PutBinding_KeepsPointer(h, symtable, new_bind, new_key, pcKey, pvValue) ==
    LET h1 == [h EXCEPT ![new_key] = StrCell(<<>>)]
        h2 == [h1 EXCEPT ![new_bind] = BindCell(pcKey, pvValue, h1[symtable].first)]
    IN  [h2 EXCEPT ![symtable] =
            TableCell((h2[symtable].uiSize + 1) % UIntMod, new_bind)]

\* SymTable_put past its asserts: copy the key, fill the binding, link it
\* first, count it
PutBinding(h, symtable, new_bind, new_key, pcKey, pvValue) ==
    LET h1 == [h EXCEPT ![new_key] = StrCell(strcpy(Str(h, pcKey)))]
        h2 == [h1 EXCEPT ![new_bind] = BindCell(new_key, pvValue, h1[symtable].first)]
    IN  [h2 EXCEPT ![symtable] =
            TableCell((h2[symtable].uiSize + 1) % UIntMod, new_bind)]

\* the unlinking of SymTable_remove gone wrong: the head pointer is moved
\* past the binding wherever the binding is
Unlink_AlwaysMovesHead(h, symtable, ptr, ptr_prev) ==
    LET h1 == [h EXCEPT ![symtable].first = h[ptr].next]
        h2 == [h1 EXCEPT ![symtable].uiSize = (h1[symtable].uiSize - 1) % UIntMod]
    IN  Release(Release(h2, h2[ptr].key), ptr)

\* the unlinking of SymTable_remove gone wrong: the key copy is not freed
Unlink_LeaksKey(h, symtable, ptr, ptr_prev) ==
    LET h1 == IF ptr = h[symtable].first
              THEN [h EXCEPT ![symtable].first = h[ptr].next]
              ELSE [h EXCEPT ![ptr_prev].next = h[ptr].next]
        h2 == [h1 EXCEPT ![symtable].uiSize = (h1[symtable].uiSize - 1) % UIntMod]
    IN  Release(h2, ptr)

\* SymTable_remove when the key is found at ptr: unlink, count down, free
\* the key and the binding
Unlink(h, symtable, ptr, ptr_prev) ==
    LET h1 == IF ptr = h[symtable].first
              THEN [h EXCEPT ![symtable].first = h[ptr].next]
              ELSE [h EXCEPT ![ptr_prev].next = h[ptr].next]
        h2 == [h1 EXCEPT ![symtable].uiSize = (h1[symtable].uiSize - 1) % UIntMod]
    IN  Release(Release(h2, h2[ptr].key), ptr)

\* The local ptr_prev of SymTable_remove: what it holds, and whether an
\* assignment put it there (it is declared without an initial value).
Unset(junk) == [set |-> FALSE, val |-> junk]

Assigned(ptr) == [set |-> TRUE, val |-> ptr]

\* the read of ptr_prev made when the binding at ptr is unlinked: none for
\* the head, else whether ptr_prev was assigned, what it held, and ptr
PrevRead(h, symtable, ptr, ptr_prev) ==
    IF ptr = h[symtable].first THEN <<>>
    ELSE <<[set |-> ptr_prev.set, prev |-> ptr_prev.val, ptr |-> ptr]>>

\* the scan loop of SymTable_remove gone wrong: it returns 0 at the first
\* binding whose key differs
RemoveLoop_HeadOnly(h, symtable, ptr, ptr_prev, pcKey) ==
    IF ptr = NULL THEN [heap |-> h, ret |-> 0, iters |-> 0, prevRead |-> <<>>]
    ELSE IF strcmp(KeyOf(h, ptr), Str(h, pcKey)) # 0
         THEN [heap |-> h, ret |-> 0, iters |-> 1, prevRead |-> <<>>]
         ELSE [heap |-> Unlink(h, symtable, ptr, ptr_prev.val), ret |-> 1,
               iters |-> 1, prevRead |-> PrevRead(h, symtable, ptr, ptr_prev)]

\* the scan loop of SymTable_remove gone wrong: the count is decremented
\* on the way out when nothing was found, too
RECURSIVE RemoveLoop_CountsAlways(_, _, _, _, _)
RemoveLoop_CountsAlways(h, symtable, ptr, ptr_prev, pcKey) ==
    IF ptr = NULL
    THEN [heap |-> [h EXCEPT ![symtable].uiSize = (h[symtable].uiSize - 1) % UIntMod],
          ret |-> 0, iters |-> 0, prevRead |-> <<>>]
    ELSE IF strcmp(KeyOf(h, ptr), Str(h, pcKey)) # 0
         THEN Counted(RemoveLoop_CountsAlways(h, symtable, h[ptr].next,
                                              Assigned(ptr), pcKey))
         ELSE [heap |-> Unlink(h, symtable, ptr, ptr_prev.val), ret |-> 1,
               iters |-> 1, prevRead |-> PrevRead(h, symtable, ptr, ptr_prev)]

\* the scan loop of SymTable_remove gone wrong: ptr_prev is not assigned
\* when the scan moves on, so the unlinking of a binding behind the head
\* stores through whatever ptr_prev held at the start (here: the store
\* lands in the binding it points to, if it points to one)
RECURSIVE RemoveLoop_ForgetsPrev(_, _, _, _, _)
RemoveLoop_ForgetsPrev(h, symtable, ptr, ptr_prev, pcKey) ==
    IF ptr = NULL THEN [heap |-> h, ret |-> 0, iters |-> 0, prevRead |-> <<>>]
    ELSE IF strcmp(KeyOf(h, ptr), Str(h, pcKey)) # 0
         THEN Counted(RemoveLoop_ForgetsPrev(h, symtable, h[ptr].next,
                                             ptr_prev, pcKey))
         ELSE [heap |-> IF \/ ptr = h[symtable].first
                           \/ (ptr_prev.val # NULL /\ h[ptr_prev.val].kind = "bind")
                        THEN Unlink(h, symtable, ptr, ptr_prev.val)
                        ELSE Release(Release(h, h[ptr].key), ptr),
               ret |-> 1, iters |-> 1,
               prevRead |-> PrevRead(h, symtable, ptr, ptr_prev)]

\* the scan loop of SymTable_remove, from ptr on: the heap it leaves, the
\* value it returns, the iterations it made and the read of ptr_prev
RECURSIVE RemoveLoop(_, _, _, _, _)
RemoveLoop(h, symtable, ptr, ptr_prev, pcKey) ==
    IF ptr = NULL THEN [heap |-> h, ret |-> 0, iters |-> 0, prevRead |-> <<>>]
    ELSE IF strcmp(KeyOf(h, ptr), Str(h, pcKey)) # 0
         THEN Counted(RemoveLoop(h, symtable, h[ptr].next, Assigned(ptr), pcKey))
         ELSE [heap |-> Unlink(h, symtable, ptr, ptr_prev.val), ret |-> 1,
               iters |-> 1, prevRead |-> PrevRead(h, symtable, ptr, ptr_prev)]

\* the loop of SymTable_map gone wrong: it runs while ptr->next, and so
\* stops before the last binding
RECURSIVE MapLoop_SkipsLast(_, _, _)
MapLoop_SkipsLast(h, ptr, pvExtra) ==
    IF ptr = NULL \/ h[ptr].next = NULL THEN <<>>
    ELSE <<[key |-> h[ptr].key, value |-> h[ptr].value, extra |-> pvExtra]>>
         \o MapLoop_SkipsLast(h, h[ptr].next, pvExtra)

\* the loop of SymTable_map, from ptr on: the pfApply calls it makes, one
\* per iteration
RECURSIVE MapLoop(_, _, _)
MapLoop(h, ptr, pvExtra) ==
    IF ptr = NULL THEN <<>>
    ELSE <<[key |-> h[ptr].key, value |-> h[ptr].value, extra |-> pvExtra]>>
         \o MapLoop(h, h[ptr].next, pvExtra)

\* What a call does besides its result: the heap, the free() calls made so
\* far, whether a cell was read after it was freed, the loop iterations.
Doing(h) == [heap |-> h, freed |-> <<>>, readFreed |-> FALSE, iters |-> 0]

\* free(p)
Freeing(st, p) ==
    [st EXCEPT !.heap = Release(st.heap, p), !.freed = Append(st.freed, p)]

\* a read of a field of the struct at p
Reading(st, p) ==
    [st EXCEPT !.readFreed = st.readFreed \/ st.heap[p].kind = "free"]

\* the loop of SymTable_free gone wrong: the binding is freed first and its
\* next is read afterwards
RECURSIVE FreeLoop_ReadsAfterFree(_, _)
FreeLoop_ReadsAfterFree(st, ptr) ==
    IF ptr = NULL THEN st
    ELSE LET s1 == Freeing(Reading(st, ptr), st.heap[ptr].key)
             s2 == Freeing(s1, ptr)
             s3 == Reading(s2, ptr)
             ptr_next == st.heap[ptr].next
         IN  FreeLoop_ReadsAfterFree([s3 EXCEPT !.iters = @ + 1], ptr_next)

\* the loop of SymTable_free gone wrong: the value a binding refers to is
\* freed along with its key
RECURSIVE FreeLoop_FreesValues(_, _)
FreeLoop_FreesValues(st, ptr) ==
    IF ptr = NULL THEN st
    ELSE LET s1 == Reading(st, ptr)
             ptr_next == s1.heap[ptr].next
             s2 == Freeing(s1, s1.heap[ptr].key)
             s3 == IF s2.heap[ptr].value = NULL THEN s2
                   ELSE Freeing(s2, s2.heap[ptr].value)
             s4 == Freeing(s3, ptr)
         IN  FreeLoop_FreesValues([s4 EXCEPT !.iters = @ + 1], ptr_next)

\* the loop of SymTable_free, from ptr on: next is read first, then the key
\* is freed, then the binding
RECURSIVE FreeLoop(_, _)
FreeLoop(st, ptr) ==
    IF ptr = NULL THEN st
    ELSE LET s1 == Reading(st, ptr)
             ptr_next == s1.heap[ptr].next
             s2 == Freeing(Reading(s1, ptr), s1.heap[ptr].key)
             s3 == Freeing(s2, ptr)
         IN  FreeLoop([s3 EXCEPT !.iters = @ + 1], ptr_next)

\* SymTable_free gone wrong: a NULL table fails an assert as in the other
\* functions
SymTable_free_AssertsTable(h, symtable) ==
    IF symtable = NULL
    THEN [did |-> Doing(h), status |-> "abort"]
    ELSE [did |-> Freeing(FreeLoop(Reading(Doing(h), symtable), h[symtable].first),
                          symtable),
          status |-> "freed"]

\* SymTable_free: what it does, and how the call ends
SymTable_free(h, symtable) ==
    IF symtable = NULL
    THEN [did |-> Doing(h), status |-> "live"]
    ELSE [did |-> Freeing(FreeLoop(Reading(Doing(h), symtable), h[symtable].first),
                          symtable),
          status |-> "freed"]

\* the asserts at the head of the functions
AssertTable(t) == t # NULL

AssertTableKey(t, k) == t # NULL /\ k # NULL

\* the asserts of SymTable_map gone wrong: pfApply is not checked
AssertTableFn_TableOnly(t, f) == t # NULL

AssertTableFn(t, f) == t # NULL /\ f # NULL

----------------------------------------------------------------------------
\* The abstract finite map of the interface (src/symtable.h)

AbsHas(m, k) == \E b \in m : b[1] = k

AbsGet(m, k) == IF AbsHas(m, k) THEN (CHOOSE b \in m : b[1] = k)[2] ELSE NULL

AbsPut(m, k, v) == IF AbsHas(m, k) THEN m ELSE m \cup {<<k, v>>}

AbsRemove(m, k) == {b \in m : b[1] # k}

RemoveKey(seq, k) == SelectSeq(seq, LAMBDA x : x # k)

----------------------------------------------------------------------------
\* A call as the caller saw it.  prior is <<>> except for a SymTable_get
\* that directly follows a SymTable_put of an equal key string: then it is
\* that put's value and returned value.
Call(op, t, k, v, f, e, r) ==
    [op |-> op, oSymTable |-> t, pcKey |-> k, pvValue |-> v,
     pfApply |-> f, pvExtra |-> e, ret |-> r, prior |-> <<>>]

CallAfter(call, before, h) ==
    IF /\ before.op = "put" /\ before.oSymTable # NULL /\ before.pcKey # NULL
       /\ Str(h, before.pcKey) = Str(h, call.pcKey)
    THEN [call EXCEPT !.prior = <<before.pvValue, before.ret>>]
    ELSE call

\* the arguments a caller may pass: NULL, or its table, a key buffer it
\* still owns, one of its value objects
TableArgs == {NULL, oSymTable}
KeyArgs == {NULL} \cup {k \in KeyPtr : heap[k].kind = "buf"}
ValueArgs == {NULL} \cup ValPtr
FnArgs == {NULL, 1}
ExtraArgs == {NULL, 1}

\* the trace of a call that only scanned
Scanned(n) ==
    [freed |-> <<>>, readFreed |-> FALSE, iters |-> n, prevRead |-> <<>>]

\* a failed assert ends the process
Abort(call) ==
    /\ status' = "abort"
    /\ last' = call
    /\ applied' = <<>>
    /\ UNCHANGED <<oSymTable, absMap, absRet, insOrder>>

Init ==
    /\ \E symtable \in malloc(DriverHeap) \ {NULL} :
          /\ heap = NewTable(DriverHeap, symtable)
          /\ oSymTable = symtable
    /\ status = "live"
    /\ last = Call("new", NULL, NULL, NULL, NULL, NULL, oSymTable)
    /\ applied = <<>>
    /\ trace = Scanned(0)
    /\ absMap = {}
    /\ absRet = oSymTable
    /\ insOrder = <<>>

\* SymTable_new, for the next table of the driver
New ==
    /\ status = "freed"
    /\ trace' = Scanned(0)
    /\ \E symtable \in malloc(heap) :
          IF symtable = NULL
          THEN /\ Abort(Call("new", NULL, NULL, NULL, NULL, NULL, NULL))
               /\ UNCHANGED heap
          ELSE /\ heap' = NewTable(heap, symtable)
               /\ oSymTable' = symtable
               /\ status' = "live"
               /\ last' = Call("new", NULL, NULL, NULL, NULL, NULL, symtable)
               /\ applied' = <<>>
               /\ absMap' = {}
               /\ absRet' = symtable
               /\ insOrder' = <<>>

\* SymTable_free
Free(t) ==
    /\ status = "live"
    /\ LET res == SymTable_free(heap, t)
       IN  /\ heap' = res.did.heap
           /\ status' = res.status
           /\ trace' = [freed |-> res.did.freed, readFreed |-> res.did.readFreed,
                        iters |-> res.did.iters, prevRead |-> <<>>]
           /\ last' = Call("free", t, NULL, NULL, NULL, NULL, NULL)
           /\ applied' = <<>>
           /\ absRet' = NULL
           /\ IF res.status = "freed"
              THEN absMap' = {} /\ insOrder' = <<>>
              ELSE UNCHANGED <<absMap, insOrder>>
           /\ UNCHANGED oSymTable

\* SymTable_getLength
GetLength(t) ==
    /\ status = "live"
    /\ IF ~AssertTable(t)
       THEN /\ Abort(Call("getLength", t, NULL, NULL, NULL, NULL, NULL))
            /\ trace' = Scanned(0)
            /\ UNCHANGED heap
       ELSE LET res == SymTable_getLength(heap, t)
            IN  /\ heap' = res.heap
                /\ trace' = Scanned(res.iters)
                /\ last' = Call("getLength", t, NULL, NULL, NULL, NULL, res.ret)
                /\ absRet' = Cardinality(absMap)
                /\ applied' = <<>>
                /\ UNCHANGED <<oSymTable, status, absMap, insOrder>>

\* SymTable_contains
Contains(t, k) ==
    /\ status = "live"
    /\ IF ~AssertTableKey(t, k)
       THEN /\ Abort(Call("contains", t, k, NULL, NULL, NULL, NULL))
            /\ trace' = Scanned(0)
            /\ UNCHANGED heap
       ELSE LET res == SymTable_contains(heap, t, k)
            IN  /\ heap' = res.heap
                /\ trace' = Scanned(res.iters)
                /\ last' = Call("contains", t, k, NULL, NULL, NULL, res.ret)
                /\ absRet' = IF AbsHas(absMap, Str(heap, k)) THEN 1 ELSE 0
                /\ applied' = <<>>
                /\ UNCHANGED <<oSymTable, status, absMap, insOrder>>

\* SymTable_get
Get(t, k) ==
    /\ status = "live"
    /\ IF ~AssertTableKey(t, k)
       THEN /\ Abort(Call("get", t, k, NULL, NULL, NULL, NULL))
            /\ trace' = Scanned(0)
            /\ UNCHANGED heap
       ELSE LET res == SymTable_get(heap, t, k)
            IN  /\ heap' = res.heap
                /\ trace' = Scanned(res.iters)
                /\ last' = CallAfter(Call("get", t, k, NULL, NULL, NULL, res.ret), last, heap)
                /\ absRet' = AbsGet(absMap, Str(heap, k))
                /\ applied' = <<>>
                /\ UNCHANGED <<oSymTable, status, absMap, insOrder>>

\* SymTable_put
Put(t, k, v) ==
    /\ status = "live"
    /\ LET call(r) == Call("put", t, k, v, NULL, NULL, r)
       IN  IF ~AssertTableKey(t, k)
           THEN Abort(call(NULL)) /\ trace' = Scanned(0) /\ UNCHANGED heap
           ELSE LET found == SymTable_contains(heap, t, k)
                IN  /\ trace' = Scanned(found.iters)
                    /\ IF found.ret # 0
                       THEN /\ heap' = found.heap
                            /\ last' = call(0)
                            /\ absRet' = 0
                            /\ applied' = <<>>
                            /\ UNCHANGED <<oSymTable, status, absMap, insOrder>>
                       ELSE \E new_bind \in malloc(found.heap) :
                              IF new_bind = NULL
                              THEN Abort(call(NULL)) /\ heap' = found.heap
                              ELSE LET h1 == AllocBinding(found.heap, t, new_bind)
                                   IN  \E new_key \in malloc(h1) :
                                         IF new_key = NULL
                                         THEN Abort(call(NULL)) /\ heap' = h1
                                         ELSE /\ heap' = PutBinding(h1, t, new_bind,
                                                                    new_key, k, v)
                                              /\ last' = call(1)
                                              /\ absRet' = 1
                                              /\ absMap' = AbsPut(absMap, Str(heap, k), v)
                                              /\ insOrder' = Append(insOrder, Str(heap, k))
                                              /\ applied' = <<>>
                                              /\ UNCHANGED <<oSymTable, status>>

\* What the uninitialised ptr_prev of SymTable_remove may hold: NULL, a
\* pointer to a struct of the table, or a pointer to memory that is not
\* allocated (the loop stores into ptr_prev->next, so these are the cases
\* that could differ).
StackJunk(h) ==
    {NULL} \cup {a \in Addr : h[a].kind \in {"table", "bind"}}
           \cup {a \in FreeAddrs(h) : \A b \in FreeAddrs(h) : a <= b}

\* SymTable_remove; ptr_prev starts out holding whatever the stack held
Remove(t, k) ==
    /\ status = "live"
    /\ IF ~AssertTableKey(t, k)
       THEN /\ Abort(Call("remove", t, k, NULL, NULL, NULL, NULL))
            /\ trace' = Scanned(0)
            /\ UNCHANGED heap
       ELSE \E junk \in StackJunk(heap) :
              LET res == RemoveLoop(heap, t, heap[t].first, Unset(junk), k)
              IN  /\ heap' = res.heap
                  /\ trace' = [Scanned(res.iters) EXCEPT !.prevRead = res.prevRead]
                  /\ last' = Call("remove", t, k, NULL, NULL, NULL, res.ret)
                  /\ absRet' = IF AbsHas(absMap, Str(heap, k)) THEN 1 ELSE 0
                  /\ absMap' = AbsRemove(absMap, Str(heap, k))
                  /\ insOrder' = RemoveKey(insOrder, Str(heap, k))
                  /\ applied' = <<>>
                  /\ UNCHANGED <<oSymTable, status>>

\* SymTable_map with a pfApply that leaves the chain alone
Map(t, f, e) ==
    /\ status = "live"
    /\ IF ~AssertTableFn(t, f)
       THEN /\ Abort(Call("map", t, NULL, NULL, f, e, NULL))
            /\ trace' = Scanned(0)
            /\ UNCHANGED heap
       ELSE /\ applied' = MapLoop(heap, heap[t].first, e)
            /\ trace' = Scanned(Len(applied'))
            /\ last' = Call("map", t, NULL, NULL, f, e, NULL)
            /\ absRet' = NULL
            /\ UNCHANGED <<heap, oSymTable, status, absMap, insOrder>>

Next ==
    \/ New
    \/ \E t \in TableArgs : Free(t)
    \/ \E t \in TableArgs : GetLength(t)
    \/ \E t \in TableArgs, k \in KeyArgs : Contains(t, k)
    \/ \E t \in TableArgs, k \in KeyArgs : Get(t, k)
    \/ \E t \in TableArgs, k \in KeyArgs, v \in ValueArgs : Put(t, k, v)
    \/ \E t \in TableArgs, k \in KeyArgs : Remove(t, k)
    \/ \E t \in TableArgs, f \in FnArgs, e \in ExtraArgs : Map(t, f, e)

Spec == Init /\ [][Next]_vars

----------------------------------------------------------------------------
\* A caller that keeps to the contract and also reuses its key buffers while
\* the table is live

\* the strings the caller writes into its buffers
KeyStrings == {keys[i] : i \in KeyPtr}

\* the buffers it rewrites or frees
Rewritten == {k \in KeyPtr : k <= NumRewritten}

\* what the caller did to buffer k, and whether it did so right after a
\* successful put of that buffer
CallerDid(op, k) ==
    [Call(op, NULL, k, NULL, NULL, NULL, NULL) EXCEPT
        !.prior = IF last.op = "put" /\ last.ret = 1 /\ last.pcKey = k
                  THEN <<last.pvValue, last.ret>> ELSE <<>>]

\* the caller fills the buffer with another key
OverwriteKey(k, s) ==
    /\ status = "live"
    /\ heap[k].kind = "buf"
    /\ s # Str(heap, k)
    /\ heap' = [heap EXCEPT ![k] = BufCell(s)]
    /\ last' = CallerDid("overwrite", k)
    /\ trace' = Scanned(0)
    /\ applied' = <<>>
    /\ UNCHANGED <<oSymTable, status, absMap, absRet, insOrder>>

\* the caller frees the buffer
FreeKey(k) ==
    /\ status = "live"
    /\ heap[k].kind = "buf"
    /\ heap' = Release(heap, k)
    /\ last' = CallerDid("freeKey", k)
    /\ trace' = Scanned(0)
    /\ applied' = <<>>
    /\ UNCHANGED <<oSymTable, status, absMap, absRet, insOrder>>

\* the keys this caller passes: the buffers it still owns
OwnedKeys == KeyArgs \ {NULL}

NextCaller ==
    \/ \E k \in OwnedKeys, v \in ValueArgs : Put(oSymTable, k, v)
    \/ \E k \in OwnedKeys : Remove(oSymTable, k)
    \/ \E k \in OwnedKeys : Contains(oSymTable, k)
    \/ \E k \in OwnedKeys : Get(oSymTable, k)
    \/ \E k \in Rewritten, s \in KeyStrings : OverwriteKey(k, s)
    \/ \E k \in Rewritten : FreeKey(k)

SpecCaller == Init /\ [][NextCaller]_vars

----------------------------------------------------------------------------
\* The chain as the properties see it

\* the bindings reachable from ptr by following next, at most n of them
RECURSIVE ChainFrom(_, _, _)
ChainFrom(h, ptr, n) ==
    IF ptr = NULL \/ n = 0 THEN <<>>
    ELSE <<ptr>> \o ChainFrom(h, h[ptr].next, n - 1)

\* the bindings reachable from the head of the caller's table
Chain == ChainFrom(heap, heap[oSymTable].first, HeapSize + 1)

\* their key strings and value references, head first
ChainKeys == [i \in 1..Len(Chain) |-> KeyOf(heap, Chain[i])]
ChainValues == [i \in 1..Len(Chain) |-> heap[Chain[i]].value]

Range(seq) == {seq[i] : i \in 1..Len(seq)}

Reverse(seq) == [i \in 1..Len(seq) |-> seq[Len(seq) + 1 - i]]

uiSize == heap[oSymTable].uiSize

----------------------------------------------------------------------------
\* C1: while the table is live, uiSize (and so what SymTable_getLength
\* returned, when it was the last call) equals the number of bindings
\* reachable from the head, which equals the number of distinct keys bound.
C1_SizeIsChainLength ==
    status = "live" =>
        /\ uiSize = Len(Chain)
        /\ Len(Chain) = Cardinality(Range(ChainKeys))
        /\ (last.op = "getLength" => last.ret = Len(Chain))

\* a table that held three bindings and lost one to a remove, and then a
\* failed remove
C1_Witness ==
    /\ status = "live"
    /\ last.op = "remove" /\ last.ret = 0
    /\ Len(Chain) = 2

\* C2: no two bindings of the chain hold equal key strings.
C2_KeysUnique ==
    status = "live" =>
        \A i, j \in 1..Len(Chain) : i # j => ChainKeys[i] # ChainKeys[j]

\* a full table on which a put of an already bound key was just refused
C2_Witness ==
    /\ status = "live"
    /\ last.op = "put" /\ last.ret = 0
    /\ Len(Chain) = 3

\* C3: every put, remove, get, contains and getLength call returns what the
\* abstract map returns for it.
C3_RefinesAbstractMap ==
    (status = "live" /\ last.op \in {"put", "remove", "get", "contains", "getLength"})
        => last.ret = absRet

\* a get that found a value in a table of three bindings
C3_Witness ==
    /\ status = "live"
    /\ last.op = "get" /\ last.ret \in ValPtr
    /\ Cardinality(absMap) = 3

\* a key string is bound when some binding of the chain holds it
Bound(k) == k \in Range(ChainKeys)

\* the step is a call of op that returned to the caller
Returned(op) == status = "live" /\ last'.op = op /\ status' = "live"

\* C4: a put of a key that is already bound returns 0 and leaves the whole
\* heap as it was: the chain, its links and order, the stored value, the
\* count, and nothing newly allocated.
C4_DuplicatePutChangesNothing ==
    [][(Returned("put") /\ Bound(keys[last'.pcKey]))
          => (last'.ret = 0 /\ heap' = heap /\ oSymTable' = oSymTable)]_vars

\* a refused put whose value differs from the one the key is bound to
C4_Witness ==
    /\ status = "live"
    /\ last.op = "put" /\ last.ret = 0
    /\ \E i \in 1..Len(Chain) :
          ChainKeys[i] = keys[last.pcKey] /\ ChainValues[i] # last.pvValue

\* C5: a put of a key that is not bound, when it returns, returns 1, makes a
\* binding of that key and value the head, keeps the old bindings behind it
\* in their order with keys and values unchanged, and adds one to the count.
C5_FreshPutLinksAtHead ==
    [][(Returned("put") /\ ~Bound(keys[last'.pcKey]))
          => /\ last'.ret = 1
             /\ Chain' # <<>>
             /\ heap'[oSymTable].first = Head(Chain')
             /\ Tail(Chain') = Chain
             /\ Head(Chain') \notin Range(Chain)
             /\ KeyOf(heap', Head(Chain')) = keys[last'.pcKey]
             /\ heap'[Head(Chain')].value = last'.pvValue
             /\ \A i \in 1..Len(Chain) :
                   /\ heap'[Chain[i]] = heap[Chain[i]]
                   /\ heap'[heap[Chain[i]].key] = heap[heap[Chain[i]].key]
             /\ uiSize' = uiSize + 1]_vars

\* a successful put into a table that already held two bindings
C5_Witness ==
    /\ status = "live"
    /\ last.op = "put" /\ last.ret = 1
    /\ Len(Chain) = 3
    /\ ChainKeys[1] = keys[last.pcKey]

\* C6: a put returns 1 exactly when its key was not bound (also when it was
\* bound once and removed since); a get of the same key right after the put
\* returns the put's value when the put returned 1, and otherwise the value
\* of the earlier successful put, and the refused put left the size alone.
C6_PutThenGet ==
    /\ [][Returned("put") =>
            IF AbsHas(absMap, keys[last'.pcKey])
            THEN last'.ret = 0 /\ uiSize' = uiSize
            ELSE last'.ret = 1]_vars
    /\ [][(Returned("get") /\ last.op = "put"
              /\ keys[last.pcKey] = keys[last'.pcKey])
            => last'.ret = IF last.ret = 1 THEN last.pvValue
                           ELSE AbsGet(absMap, keys[last.pcKey])]_vars

\* a get right after a refused put of the same key string, returning the
\* original value and not the refused one
C6_Witness ==
    /\ status = "live"
    /\ last.op = "get" /\ last.prior # <<>>
    /\ last.prior[2] = 0
    /\ last.ret # last.prior[1]

\* C7: a remove of a key whose last successful put was not followed by a
\* remove of it returns 1; a get or contains of a key that has had no
\* successful put since its last remove returns NULL, respectively 0.
C7_RemoveAfterPut ==
    /\ [][(Returned("remove") /\ keys[last'.pcKey] \in Range(insOrder))
            => last'.ret = 1]_vars
    /\ [][(Returned("get") /\ keys[last'.pcKey] \notin Range(insOrder))
            => last'.ret = NULL]_vars
    /\ [][(Returned("contains") /\ keys[last'.pcKey] \notin Range(insOrder))
            => last'.ret = 0]_vars

\* a successful remove of the oldest of three bindings
C7_Witness ==
    /\ status = "live"
    /\ last.op = "remove" /\ last.ret = 1
    /\ Len(Chain) = 2
    /\ Len(insOrder) = 2
    /\ keys[last.pcKey] \notin Range(insOrder)

\* C8: a remove of a key that is not bound returns 0 and leaves the whole
\* heap as it was, the count included.
C8_RemoveAbsentChangesNothing ==
    [][(Returned("remove") /\ ~Bound(keys[last'.pcKey]))
          => (last'.ret = 0 /\ heap' = heap /\ oSymTable' = oSymTable)]_vars

\* a refused remove on an empty table, whose count stays 0
C8_Witness ==
    /\ status = "live"
    /\ last.op = "remove" /\ last.ret = 0
    /\ Chain = <<>> /\ uiSize = 0

\* C9: SymTable_map calls pfApply once per binding of the chain, head
\* first, each binding once, with that binding's key pointer and value and
\* the caller's pvExtra; head first is latest successful put first.
C9_MapVisitsChainInOrder ==
    (status = "live" /\ last.op = "map") =>
        /\ Len(applied) = uiSize
        /\ Len(applied) = Len(Chain)
        /\ Cardinality(Range(Chain)) = Len(Chain)
        /\ \A i \in 1..Len(Chain) :
              applied[i] = [key |-> heap[Chain[i]].key,
                            value |-> heap[Chain[i]].value,
                            extra |-> last.pvExtra]
        /\ [i \in 1..Len(applied) |-> heap[applied[i].key].chars] = Reverse(insOrder)

\* a map over three bindings with a pvExtra
C9_Witness ==
    /\ status = "live"
    /\ last.op = "map" /\ last.pvExtra # NULL
    /\ Len(applied) = 3

\* C10: contains, get and getLength leave the heap and the handle as they
\* were, and a contains or get repeated right away with an equal key
\* returns what it returned before.
C10_QueriesHaveNoEffect ==
    /\ [][(Returned("contains") \/ Returned("get") \/ Returned("getLength"))
            => (heap' = heap /\ oSymTable' = oSymTable)]_vars
    /\ [][((Returned("contains") \/ Returned("get")) /\ last.op = last'.op
              /\ keys[last.pcKey] = keys[last'.pcKey])
            => last'.ret = last.ret]_vars

\* a contains that found a key given in the second buffer holding "a"
C10_Witness ==
    /\ status = "live"
    /\ last.op = "contains" /\ last.ret = 1
    /\ last.pcKey = 4
    /\ Len(Chain) = 2

----------------------------------------------------------------------------
\* C11 as claimed: for every key, SymTable_get returns NULL exactly when
\* SymTable_contains returns 0, whatever value references were put.
C11_GetNullIffAbsent ==
    status = "live" =>
        \A k \in KeyPtr :
            (SymTable_get(heap, oSymTable, k).ret = NULL)
                <=> (SymTable_contains(heap, oSymTable, k).ret = 0)

\* C11: for every key, SymTable_get returns NULL when no binding holds the
\* key and the value reference stored with the key when one does; so a
\* result that is not NULL shows the key is bound, and a NULL result shows
\* it is not bound only if the binding's value reference is not NULL.
C11_GetReturnsStoredValue ==
    status = "live" =>
        \A k \in KeyPtr :
            LET got == SymTable_get(heap, oSymTable, k).ret
                has == SymTable_contains(heap, oSymTable, k).ret
            IN  /\ has \in {0, 1}
                /\ has = 0 <=> ~Bound(Str(heap, k))
                /\ has = 0 => got = NULL
                /\ has = 1 => \E i \in 1..Len(Chain) :
                                 /\ ChainKeys[i] = Str(heap, k)
                                 /\ got = ChainValues[i]
                /\ got # NULL => has = 1
                /\ (got = NULL /\ has = 1) => AbsGet(absMap, Str(heap, k)) = NULL

\* a get that returned NULL for a key that is bound (to a NULL value
\* reference), with another binding in front of it
C11_Witness ==
    /\ status = "live"
    /\ last.op = "get" /\ last.ret = NULL
    /\ Bound(keys[last.pcKey])
    /\ Len(Chain) = 2
    /\ ChainKeys[2] = keys[last.pcKey]
    /\ ChainValues[1] # NULL

\* C12: a table that holds no binding, fresh from SymTable_new or with
\* every binding put into it removed again, has count 0 and head NULL, and
\* for every key get returns NULL, contains returns 0 and remove returns 0
\* (and changes nothing).
C12_EmptyTable ==
    (status = "live" /\ insOrder = <<>>) =>
        /\ heap[oSymTable] = TableCell(0, NULL)
        /\ SymTable_getLength(heap, oSymTable).ret = 0
        /\ \A k \in KeyPtr :
              /\ SymTable_get(heap, oSymTable, k).ret = NULL
              /\ SymTable_contains(heap, oSymTable, k).ret = 0
              /\ \A junk \in StackJunk(heap) :
                    RemoveLoop(heap, oSymTable, heap[oSymTable].first,
                               Unset(junk), k)
                        = [heap |-> heap, ret |-> 0, iters |-> 0, prevRead |-> <<>>]
        /\ last.op = "new" => last.ret = oSymTable
        /\ last.op = "getLength" => last.ret = 0
        /\ last.op = "contains" => last.ret = 0
        /\ last.op = "get" => last.ret = NULL

\* a table emptied by the removal of its last binding
C12_Witness ==
    /\ status = "live"
    /\ insOrder = <<>>
    /\ last.op = "remove" /\ last.ret = 1
    /\ trace.iters = 1

\* C13: SymTable_free of a table frees every binding reachable from the
\* head, every binding's key copy and the table struct, each exactly once
\* and each while it is allocated, the struct last; nothing the table
\* allocated stays allocated, nothing else is touched, and no binding is
\* read after it was freed.
C13_FreeReleasesAllOnce ==
    [][(status = "live" /\ last'.op = "free" /\ last'.oSymTable # NULL) =>
        LET freed == trace'.freed
            owned == Range(Chain) \cup {heap[b].key : b \in Range(Chain)}
                        \cup {oSymTable}
        IN  /\ status' = "freed"
            /\ Range(freed) = owned
            /\ Len(freed) = Cardinality(Range(freed))
            /\ Len(freed) = 2 * Len(Chain) + 1
            /\ freed[Len(freed)] = oSymTable
            /\ \A a \in Range(freed) : heap[a].kind # "free"
            /\ ~trace'.readFreed
            /\ \A a \in Addr :
                  heap'[a] = IF a \in owned THEN FreeCell ELSE heap[a]
            /\ \A a \in Addr : heap'[a].kind \notin {"table", "bind", "str"}
            /\ trace'.iters = Len(Chain)
      ]_vars

\* a table of three bindings was freed: seven calls of free
C13_Witness ==
    /\ status = "freed"
    /\ last.op = "free"
    /\ Len(trace.freed) = 7

\* C14: the table's operations never free, copy or write a value object of
\* the caller: in every state, also after a duplicate put, a remove and a
\* SymTable_free, each value object is allocated and holds what the caller
\* stored, and there is no other such object.
C14_ValuesUntouched ==
    \A a \in Addr :
        /\ a \in ValPtr => heap[a] = DriverHeap[a]
        /\ heap[a].kind = "int" => a \in ValPtr

\* a put that was refused for a key bound to a value object, with that
\* value object as argument
C14_Witness ==
    /\ status = "live"
    /\ last.op = "put" /\ last.ret = 0
    /\ last.pvValue \in ValPtr
    /\ \E i \in 1..Len(Chain) :
          ChainKeys[i] = keys[last.pcKey] /\ ChainValues[i] = last.pvValue

\* C15: getLength, put, remove, contains, get and map called with a NULL
\* table, put, remove, contains and get called with a NULL key, and map
\* called with a NULL pfApply end in the failed-assert state, with no
\* iteration of a scan loop made, no pfApply call made and the heap as it
\* was.
C15_ContractViolationAborts ==
    [][(/\ status = "live"
        /\ \/ /\ last'.op \in {"getLength", "put", "remove", "contains", "get", "map"}
              /\ last'.oSymTable = NULL
           \/ /\ last'.op \in {"put", "remove", "contains", "get"}
              /\ last'.pcKey = NULL
           \/ /\ last'.op = "map"
              /\ last'.pfApply = NULL)
       => /\ status' = "abort"
          /\ heap' = heap
          /\ trace' = Scanned(0)
          /\ applied' = <<>>
          /\ last'.ret = NULL
      ]_vars

\* a map with a NULL pfApply over a table of two bindings ended in the
\* failed assert
C15_Witness ==
    /\ status = "abort"
    /\ last.op = "map" /\ last.oSymTable # NULL /\ last.pfApply = NULL
    /\ Len(Chain) = 2

\* the chain from the head visits no binding twice, visits only allocated
\* bindings with allocated keys, and ends in NULL
ChainEndsInNull ==
    /\ Len(Chain) <= HeapSize
    /\ Cardinality(Range(Chain)) = Len(Chain)
    /\ \A i \in 1..Len(Chain) :
          /\ heap[Chain[i]].kind = "bind"
          /\ heap[heap[Chain[i]].key].kind = "str"
          /\ heap[Chain[i]].next = IF i < Len(Chain) THEN Chain[i + 1] ELSE NULL

\* C16: while there is a table its chain is finite, acyclic and ends in
\* NULL, and every call (contains, get, put, remove, map, free) makes at
\* most as many iterations of its loop as the count was before the call.
C16_ScansAreBounded ==
    /\ []((status = "live" \/ (status = "abort" /\ last.op # "new"))
            => ChainEndsInNull)
    /\ [][status = "live" =>
            /\ trace'.iters <= uiSize
            /\ trace'.iters <= Len(Chain)
            /\ last'.op \in {"map", "free"} /\ last'.oSymTable # NULL
                  /\ status' # "abort" => trace'.iters = uiSize
         ]_vars

\* a contains walked all of a chain of three bindings and found the key in
\* the last one
C16_Witness ==
    /\ status = "live"
    /\ Len(Chain) = 3
    /\ last.op = "contains" /\ last.ret = 1
    /\ trace.iters = 3

\* seq without its i-th element
Without(seq, i) ==
    [j \in 1..(Len(seq) - 1) |-> IF j < i THEN seq[j] ELSE seq[j + 1]]

\* C17: a remove of a bound key returns 1 and takes exactly the binding
\* with that key out of the chain, be it the head, an interior binding or
\* the last: the other bindings stay, in the same order, with the same key
\* copies and value references, the head pointer changes only if the head
\* was removed, the count goes down by 1, and the binding and its key copy
\* are freed.
C17_RemoveTakesOutOneBinding ==
    [][(Returned("remove") /\ Bound(keys[last'.pcKey])) =>
        LET before == Chain
            after == Chain'
        IN  /\ last'.ret = 1
            /\ \E i \in 1..Len(before) :
                  /\ KeyOf(heap, before[i]) = keys[last'.pcKey]
                  /\ trace'.iters = i
                  /\ after = Without(before, i)
                  /\ \A j \in 1..Len(before) : j # i =>
                        /\ heap'[before[j]].key = heap[before[j]].key
                        /\ heap'[before[j]].value = heap[before[j]].value
                        /\ heap'[heap[before[j]].key] = heap[heap[before[j]].key]
                  /\ i # 1 => heap'[oSymTable].first = heap[oSymTable].first
                  /\ i = 1 => heap'[oSymTable].first = heap[before[1]].next
                  /\ heap'[before[i]] = FreeCell
                  /\ heap'[heap[before[i]].key] = FreeCell
            /\ uiSize' = uiSize - 1
            /\ oSymTable' = oSymTable
      ]_vars

\* the middle one of three bindings was removed
C17_Witness ==
    /\ status = "live"
    /\ last.op = "remove" /\ last.ret = 1
    /\ trace.iters = 2
    /\ Len(Chain) = 2

\* C19: a put with a table and a key that ends in the failed-assert state
\* (an allocation failed) was a put of a key that is not bound, and it
\* leaves the table as it was: the struct with its head pointer and count,
\* the chain, every binding and every key copy; at most the binding that
\* was allocated before the key allocation failed is left behind, linked
\* nowhere.
C19_FailedPutKeepsTable ==
    [][(/\ status = "live" /\ status' = "abort"
        /\ last'.op = "put" /\ last'.oSymTable # NULL /\ last'.pcKey # NULL)
       => LET before == Chain
              changed == {a \in Addr : heap'[a] # heap[a]}
          IN  /\ ~Bound(keys[last'.pcKey])
              /\ heap'[oSymTable] = heap[oSymTable]
              /\ oSymTable' = oSymTable
              /\ Chain' = before
              /\ \A i \in 1..Len(before) :
                    /\ heap'[before[i]] = heap[before[i]]
                    /\ heap'[heap[before[i]].key] = heap[heap[before[i]].key]
              /\ Cardinality(changed) <= 1
              /\ \A a \in changed :
                    /\ heap[a] = FreeCell
                    /\ heap'[a].kind = "bind"
                    /\ \A b \in Addr : heap'[b].kind = "bind" => heap'[b].next # a
                    /\ heap'[oSymTable].first # a
              /\ last'.ret = NULL
      ]_vars

\* a put onto a table of two bindings failed at the key allocation, after
\* the binding was allocated
C19_Witness ==
    /\ status = "abort"
    /\ last.op = "put" /\ last.oSymTable # NULL /\ last.pcKey # NULL
    /\ Len(Chain) = 2
    /\ uiSize = 2
    /\ \E a \in Addr : heap[a].kind = "bind" /\ a \notin Range(Chain)

\* C20: SymTable_free with a NULL table returns without a failed assert,
\* frees nothing, reads nothing and changes nothing, while every other
\* operation called with a NULL table ends in the failed assert.
C20_FreeOfNullIsNoOp ==
    [][(status = "live" /\ last'.oSymTable = NULL /\ last'.op # "new") =>
          IF last'.op = "free"
          THEN /\ status' = "live"
               /\ heap' = heap
               /\ oSymTable' = oSymTable
               /\ trace' = Scanned(0)
               /\ absMap' = absMap /\ insOrder' = insOrder
          ELSE status' = "abort"
      ]_vars

\* SymTable_free(NULL) returned while the caller's table held two bindings
C20_Witness ==
    /\ status = "live"
    /\ last.op = "free" /\ last.oSymTable = NULL
    /\ Len(Chain) = 2

\* C18: a binding holds its own copy of the key.  Whatever the caller does
\* to its key buffers after a successful put (overwrite them, free them),
\* every binding's key is a char array of the table's that holds what the
\* buffer held when it was put, and contains, get and remove find a binding
\* exactly for the strings equal to those contents: not for a buffer's new
\* contents, unless that string was put too.
C18_BindingOwnsKeyCopy ==
    /\ [](status = "live" =>
            /\ \A i \in 1..Len(Chain) : heap[heap[Chain[i]].key].kind = "str"
            /\ ChainKeys = Reverse(insOrder)
            /\ \A k \in KeyArgs \ {NULL} :
                  LET held == Str(heap, k) \in Range(insOrder)
                  IN  /\ SymTable_contains(heap, oSymTable, k).ret
                            = IF held THEN 1 ELSE 0
                      /\ SymTable_get(heap, oSymTable, k).ret
                            = AbsGet(absMap, Str(heap, k))
                      /\ \A junk \in StackJunk(heap) :
                            RemoveLoop(heap, oSymTable, heap[oSymTable].first,
                                       Unset(junk), k).ret
                               = IF held THEN 1 ELSE 0)
    /\ [][(status = "live" /\ last'.op \in {"overwrite", "freeKey"}) =>
            /\ Chain' = Chain
            /\ ChainKeys' = ChainKeys
            /\ ChainValues' = ChainValues
            /\ uiSize' = uiSize
         ]_vars

\* the buffer of a successful put was overwritten right after the put, with
\* a string that is not bound; the new head binding still holds the string
\* that was put, behind it is an older binding
C18_Witness ==
    /\ status = "live"
    /\ last.op = "overwrite" /\ last.prior # <<>>
    /\ Len(Chain) = 2
    /\ ChainKeys[1] = keys[last.pcKey]
    /\ Str(heap, last.pcKey) # keys[last.pcKey]
    /\ Str(heap, last.pcKey) \notin Range(ChainKeys)
    /\ SymTable_contains(heap, oSymTable, last.pcKey).ret = 0

\* the cells the table has allocated and not freed
TableOwned(h) == {a \in Addr : h[a].kind \in {"table", "bind", "str"}}

\* C21: while the table is live (after any new, put and remove calls and
\* before free) the allocations of the table that are live are exactly
\* the struct, the bindings reachable from the head and their key copies,
\* one binding and one key copy of its own per binding: nothing removed
\* stays allocated, nothing reachable is freed.
C21_OwnsExactlyTheChain ==
    status = "live" =>
        LET chain == Chain
            keyCells == {heap[b].key : b \in Range(chain)}
        IN  /\ heap[oSymTable].kind = "table"
            /\ \A b \in Range(chain) : heap[b].kind = "bind"
            /\ \A c \in keyCells : heap[c].kind = "str"
            /\ Cardinality(Range(chain)) = Len(chain)
            /\ Cardinality(keyCells) = Len(chain)
            /\ TableOwned(heap) = {oSymTable} \cup Range(chain) \cup keyCells
            /\ Cardinality(TableOwned(heap)) = 1 + 2 * Len(chain)

\* two bindings are left of three after the removal of the middle one
C21_Witness ==
    /\ status = "live"
    /\ last.op = "remove" /\ last.ret = 1
    /\ trace.iters = 2
    /\ Len(Chain) = 2
    /\ Cardinality(TableOwned(heap)) = 5

\* C22: SymTable_remove reads ptr_prev only when it unlinks a binding that
\* is not the head, and then ptr_prev was assigned in an earlier iteration
\* of the loop and points to the binding right before the matched one
\* (ptr_prev->next == ptr); the store goes into that binding, and what
\* the variable held at the start makes no difference to the call.
C22_PrevIsAssignedPredecessor ==
    [][Returned("remove") =>
        LET before == Chain
            reads == trace'.prevRead
            i == trace'.iters
        IN  /\ Len(reads) <= 1
            /\ reads # <<>> <=> (last'.ret = 1 /\ i > 1)
            /\ \A n \in 1..Len(reads) :
                  /\ reads[n].set
                  /\ reads[n].ptr = before[i]
                  /\ reads[n].prev = before[i - 1]
                  /\ heap[reads[n].prev].kind = "bind"
                  /\ heap[reads[n].prev].next = reads[n].ptr
                  /\ heap'[reads[n].prev].next = heap[reads[n].ptr].next
            /\ \A junk \in StackJunk(heap) :
                  LET res == RemoveLoop(heap, oSymTable, heap[oSymTable].first,
                                        Unset(junk), last'.pcKey)
                  IN  res.heap = heap' /\ res.ret = last'.ret
      ]_vars

\* the last of three bindings was removed: ptr_prev was read, and it held
\* the second binding
C22_Witness ==
    /\ status = "live"
    /\ last.op = "remove" /\ last.ret = 1
    /\ trace.iters = 3
    /\ trace.prevRead # <<>>
    /\ Len(Chain) = 2
    /\ trace.prevRead[1].prev = Chain[2]

====
